---- MODULE Spec2Model ----
(***************************************************************************)
(* Model of the WD14 batch tagger (src/nodes.py): the model-asset resolver *)
(* ensure_model_available, the process-wide single-slot model_cache filled *)
(* by load_model_once, the folder loader BSS_LoadImagesFolder.load_images  *)
(* and the per-image handler BSS_WD14BatchTagger.tag_batch.                *)
(*                                                                         *)
(* Text is modelled as a sequence of one-character strings, so that strip, *)
(* lower, split, join and the underscore replacement are computed the way  *)
(* Python computes them.  An optional value (Python's None) is the empty   *)
(* tuple, a present value x is the one-element tuple <<x>>.                *)
(*                                                                         *)
(* The collaborators the code calls (hf_hub_download, ort.InferenceSession,*)
(* open, sess.run, the host's progress bar) are the environment: each call *)
(* of an action draws their outcomes from the record env.                  *)
(***************************************************************************)
EXTENDS Integers, Sequences, FiniteSets, TLC

\* ------------------------------------------------------------------ bounds

\* Sessions constructed in one process lifetime.
MaxSessions == 3
\* Calls of tag_batch observed in one batch (length of the history tagged).
MaxTagged == 2

\* ------------------------------------------------------------- option type

None == <<>>
Some(x) == <<x>>
IsSome(o) == o # None
TheValue(o) == o[1]

\* --------------------------------------------------------------- text (str)

\* The elements of a sequence.
Range(s) == {s[i] : i \in DOMAIN s}

\* str.strip(): leading and trailing blanks removed.
RECURSIVE LStrip(_)
LStrip(s) == IF s # <<>> /\ Head(s) = " " THEN LStrip(Tail(s)) ELSE s

RECURSIVE RStrip(_)
RStrip(s) ==
    IF s # <<>> /\ s[Len(s)] = " " THEN RStrip(SubSeq(s, 1, Len(s) - 1)) ELSE s

Strip(s) == RStrip(LStrip(s))

\* str.lower() on the letters the model's texts are written with.
UpperCase == <<"A", "B", "C", "G", "J", "P", "S", "T">>
LowerCase == <<"a", "b", "c", "g", "j", "p", "s", "t">>

LowerChar(c) ==
    IF c \in Range(UpperCase)
    THEN LowerCase[CHOOSE i \in DOMAIN UpperCase : UpperCase[i] = c]
    ELSE c

Lower(s) == [i \in DOMAIN s |-> LowerChar(s[i])]

\* tag.replace("_", " ")
ReplaceUnderscore(s) == [i \in DOMAIN s |-> IF s[i] = "_" THEN " " ELSE s[i]]

\* Index of the first occurrence of character c in s, 0 when there is none.
RECURSIVE FindFrom(_, _, _)
FindFrom(s, c, i) ==
    IF i > Len(s) THEN 0 ELSE IF s[i] = c THEN i ELSE FindFrom(s, c, i + 1)

Find(s, c) == FindFrom(s, c, 1)

\* str.split(c): the pieces between the occurrences of c ("" gives [""]).
RECURSIVE Split(_, _)
Split(s, c) ==
    LET i == Find(s, c)
    IN  IF i = 0 THEN <<s>>
        ELSE <<SubSeq(s, 1, i - 1)>> \o Split(SubSeq(s, i + 1, Len(s)), c)

\* sep.join(parts)
RECURSIVE Join(_, _)
Join(sep, parts) ==
    IF parts = <<>> THEN <<>>
    ELSE IF Len(parts) = 1 THEN parts[1]
    ELSE parts[1] \o sep \o Join(sep, Tail(parts))

CommaSpace == <<",", " ">>

\* ---------------------------------------------------------- model registry

VIT == "wd-vit-tagger-v3"
SWINV2 == "wd-swinv2-tagger-v3"
EVA02 == "wd-eva02-large-tagger-v3"
CONVNEXT == "wd-convnext-tagger-v3"
\* A name that is no key of the registry.
UNKNOWN == "wd-unknown-tagger"

MODEL_CONFIGS ==
    [m \in {VIT, SWINV2, EVA02, CONVNEXT} |->
        [repo_id |-> <<"SmilingWolf", m>>,
         filename |-> "model.onnx",
         csv_filename |-> "selected_tags.csv"]]

\* The model names the calls of the model are made with.
ModelNames == {VIT, SWINV2, UNKNOWN}

\* The canonical local files of a model: <models>/<name>.onnx, <name>.csv.
OnnxPath(model_name) == <<model_name, ".onnx">>
CsvPath(model_name) == <<model_name, ".csv">>

\* The label file the remote repository of a model serves: a header row and
\* one row per output of the network.  The second repository's file holds a
\* blank line, which csv.reader yields as a row without columns.
RemoteCsv(model_name) ==
    IF model_name = VIT
    THEN << <<"tag_id", "name", "category">>,
            <<"0", <<"a", "_", "b">>, "0">>,
            <<"1", <<"C", "a", "t">>, "0">> >>
    ELSE << <<"tag_id", "name", "category">>,
            <<"0", <<"s", "_", "a">>, "0">>,
            << >>,
            <<"2", <<"b", "c">>, "4">> >>

\* The square input edge and the input tensor name the network declares
\* (sess.get_inputs()[0]): the v3 taggers take 448 x 448 images.
InputEdge == 448
InputName(model_name) == <<"input", model_name>>

\* ------------------------------------------------------------------- state

VARIABLES
    model_dir,       \* the files present in <install_root>/models (canonical paths)
    model_cache,     \* the global model_cache: five optional fields
    constructed,     \* history: model name |-> sessions constructed for it so far
    batch_progress,  \* the global BatchProgressManager: its progress bar
    out_dir,         \* the output folder: stem |-> optional content of <stem>.txt
    tagged,          \* history: the calls of tag_batch that reached the save step
    lastCall         \* the most recent call: its arguments, effects and result

vars == <<model_dir, model_cache, constructed, batch_progress, out_dir, tagged, lastCall>>

EmptyCache ==
    [session |-> None, tags |-> None, model_name |-> None,
     input_name |-> None, input_size |-> None]

\* What a call leaves behind for observation; every call overwrites it.
NoCall ==
    [op |-> "none", model_name |-> "", use_gpu |-> FALSE, ok |-> FALSE,
     fail |-> "", hit |-> FALSE, resolved |-> FALSE, fetched |-> {},
     renamed |-> {}, model_path |-> <<>>, csv_path |-> <<>>, attempts |-> <<>>,
     built |-> 0, read_labels |-> FALSE, sess1 |-> TRUE, sess2 |-> TRUE,
     filename |-> <<>>, folder_path |-> "", image |-> None, settings |-> None,
     tags |-> <<>>, probs |-> <<>>, composed |-> None,
     result |-> <<>>, outcome |-> "", wrote |-> "none", stem |-> <<>>,
     progress |-> "none", filenames |-> <<>>]

\* --------------------------------------------------- ensure_model_available

\* What hf_hub_download can do: place the file under its remote filename in
\* the models directory, return without a file under that name, or raise.
FetchOutcomes == {"placed", "absent", "raise"}

\* model_path.exists() and csv_path.exists()
BothExist(dir, model_name) ==
    OnnxPath(model_name) \in dir /\ CsvPath(model_name) \in dir

\* One "download and rename" block: the directory after it.  The fetched file
\* lands under the remote filename and is renamed only when it is found there.
FetchAndRename(dir, path, outcome) ==
    IF outcome = "placed" THEN dir \cup {path} ELSE dir

\* ensure_model_available(model_name), with the models directory dir and the
\* outcomes of the two possible fetches.  The result record holds the returned
\* tuple (success, model_path, csv_path), the directory afterwards and the
\* fetches and renames performed.
ensure_model_available(dir, model_name, env) ==
    LET failed == [success |-> FALSE, model_path |-> <<>>, csv_path |-> <<>>,
                   dir |-> dir, fetched |-> {}, renamed |-> {}, fail |-> ""]
        need_model == OnnxPath(model_name) \notin dir
        need_csv == CsvPath(model_name) \notin dir
        dir1 == IF need_model
                THEN FetchAndRename(dir, OnnxPath(model_name), env.fetch_model)
                ELSE dir
        model_raised == need_model /\ env.fetch_model = "raise"
        dir2 == IF need_csv /\ ~model_raised
                THEN FetchAndRename(dir1, CsvPath(model_name), env.fetch_csv)
                ELSE dir1
        csv_raised == ~model_raised /\ need_csv /\ env.fetch_csv = "raise"
        config == MODEL_CONFIGS[model_name]
        fetched == (IF need_model THEN {config.filename} ELSE {})
                   \cup (IF need_csv /\ ~model_raised
                         THEN {config.csv_filename} ELSE {})
    IN  IF model_name \notin DOMAIN MODEL_CONFIGS
        THEN [failed EXCEPT !.fail = "unknown_model"]
        ELSE IF BothExist(dir, model_name)
        THEN [failed EXCEPT !.success = TRUE,
                            !.model_path = OnnxPath(model_name),
                            !.csv_path = CsvPath(model_name)]
        ELSE IF model_raised \/ csv_raised
        THEN [failed EXCEPT !.dir = dir2, !.fetched = fetched,
                            !.renamed = dir2 \ dir, !.fail = "download_failed"]
        ELSE [failed EXCEPT !.success = TRUE,
                            !.model_path = OnnxPath(model_name),
                            !.csv_path = CsvPath(model_name),
                            !.dir = dir2, !.fetched = fetched,
                            !.renamed = dir2 \ dir]

\* ----------------------------------------------------------- load_model_once

\* Faulty variants of the cache check: one that never hits, and one that
\* looks at the session only and takes any cached model for the requested one.
CacheCheckAbsent(cache, model_name) == FALSE

CacheHitAnyModel(cache, model_name) == cache.session # None

\* The cache check of load_model_once: the cached name is the requested one
\* and a session is cached.  use_gpu takes no part in it.
CacheHit(cache, model_name) ==
    cache.model_name = Some(model_name) /\ cache.session # None

\* The provider list the first construction is tried with.
Providers(use_gpu) ==
    IF use_gpu THEN <<"CUDAExecutionProvider", "CPUExecutionProvider">>
    ELSE <<"CPUExecutionProvider">>

CpuOnly == <<"CPUExecutionProvider">>

\* Faulty variant of the construction: no second, CPU-only, construction.
ConstructSessionNoFallback(use_gpu, first, second) ==
    IF first THEN Some(Providers(use_gpu)) ELSE None

\* The two-step construction of the session: the providers of the session
\* constructed, None when both constructions raise.  first and second tell
\* whether the first and the CPU-only construction succeed.
ConstructSession(use_gpu, first, second) ==
    IF first THEN Some(Providers(use_gpu))
    ELSE IF second THEN Some(CpuOnly)
    ELSE None

\* The provider lists the constructions were tried with.
Attempts(use_gpu, first) ==
    IF first THEN <<Providers(use_gpu)>> ELSE <<Providers(use_gpu), CpuOnly>>

\* Faulty variant of a failure path: the handler resets the cache.
CacheClearedOnFailure(cache) == EmptyCache

\* The cache as a return of False leaves it: no failure path assigns to it.
CacheOnFailure(cache) == cache

\* The rows csv.reader yields after the header, and the tags kept of them:
\* the second column of every row that has more than one column.
RECURSIVE TagsOfRows(_)
TagsOfRows(rows) ==
    IF rows = <<>> THEN <<>>
    ELSE (IF Len(Head(rows)) > 1 THEN <<Head(rows)[2]>> ELSE <<>>)
         \o TagsOfRows(Tail(rows))

\* next(reader) raises StopIteration on a file without a header row.
HeaderMissing(content) == content = <<>>

ReadTags(content) == TagsOfRows(Tail(content))

\* Sessions constructed so far, over all models.
RECURSIVE SumOver(_, _)
SumOver(f, S) ==
    IF S = {} THEN 0
    ELSE LET x == CHOOSE y \in S : TRUE IN f[x] + SumOver(f, S \ {x})

TotalConstructed(count) == SumOver(count, DOMAIN count)

\* Faulty variant of the store: the assignment of model_name is left out.
LoadedCacheWithoutName(sess, tags, model_name) ==
    [session |-> Some(sess), tags |-> Some(tags), model_name |-> None,
     input_name |-> Some(InputName(model_name)), input_size |-> Some(InputEdge)]

\* The five values a successful load stores.
LoadedCache(sess, tags, model_name) ==
    [session |-> Some(sess), tags |-> Some(tags), model_name |-> Some(model_name),
     input_name |-> Some(InputName(model_name)), input_size |-> Some(InputEdge)]

\* load_model_once(model_name, use_gpu) on the cache and the models directory;
\* count tells how many sessions were constructed before, so that every
\* session is a new object (its id).  env gives the outcomes of the
\* collaborators: the two fetches, the two session constructions (TRUE:
\* constructed) and the opening of the label file (TRUE: read).  A session
\* cannot be constructed from a model file that is not there.
load_model_once(cache, dir, count, model_name, use_gpu, env) ==
    LET r == ensure_model_available(dir, model_name, env)
        base == [ok |-> FALSE, fail |-> "", hit |-> FALSE, cache |-> cache,
                 dir |-> dir, count |-> count, resolved |-> FALSE,
                 fetched |-> {}, renamed |-> {}, attempts |-> <<>>, built |-> 0,
                 read_labels |-> FALSE]
        resolved == [base EXCEPT !.resolved = TRUE, !.dir = r.dir,
                                 !.fetched = r.fetched, !.renamed = r.renamed,
                                 !.cache = CacheOnFailure(cache)]
        present == r.model_path \in r.dir
        first == present /\ env.sess1
        second == present /\ env.sess2
        constructed_with == ConstructSession(use_gpu, first, second)
        attempts == Attempts(use_gpu, first)
        sess == [id |-> TotalConstructed(count) + 1,
                 model_name |-> model_name,
                 providers |-> TheValue(constructed_with)]
        built == [resolved EXCEPT !.attempts = attempts, !.built = 1,
                                  !.count = [count EXCEPT ![model_name] = @ + 1]]
        content == RemoteCsv(model_name)
        tags == ReadTags(content)
    IN  IF CacheHit(cache, model_name)
        THEN [base EXCEPT !.ok = TRUE, !.hit = TRUE]
        ELSE IF ~r.success
        THEN [resolved EXCEPT !.fail = r.fail]
        ELSE IF constructed_with = None
        THEN [resolved EXCEPT !.fail = "session_failed", !.attempts = attempts]
        ELSE IF r.csv_path \notin r.dir
        THEN [built EXCEPT !.fail = "label_file_missing"]
        ELSE IF ~env.read_csv \/ HeaderMissing(content)
        THEN [built EXCEPT !.fail = "label_read_error", !.read_labels = TRUE]
        ELSE [built EXCEPT !.ok = TRUE, !.read_labels = TRUE,
                           !.cache = LoadedCache(sess, tags, model_name)]

\* ------------------------------------------------------------------ tag_batch

\* model.split("|")[0] if "|" in model else model.  The argument is a
\* sequence of tokens, "|" being the separator; only a single token can be a
\* key of the registry, any other text is the empty name here.
ExtractModelName(model) ==
    LET piece == IF "|" \in Range(model) THEN Split(model, "|")[1] ELSE model
    IN  IF Len(piece) = 1 THEN piece[1] ELSE ""

\* image is None or image.size == 0 or image.shape[0] == 0 or image.shape[1] == 0
EmptyImage(image) ==
    image = None \/ TheValue(image).h = 0 \/ TheValue(image).w = 0

Max(a, b) == IF a >= b THEN a ELSE b
Min(a, b) == IF a <= b THEN a ELSE b

\* new_size = (int(w * ratio), int(h * ratio)), ratio = input_size / max(w, h)
NewSize(w, h, input_size) ==
    <<(w * input_size) \div Max(w, h), (h * input_size) \div Max(w, h)>>

\* Faulty variant of the check of the resize dimensions: the height only.
InvalidDimsHeightOnly(new_size) == new_size[2] <= 0

\* new_size[0] <= 0 or new_size[1] <= 0
InvalidDims(new_size) == new_size[1] <= 0 \/ new_size[2] <= 0

\* sess.run(...)[0][0]: one probability (in percent) per output of the network,
\* which has one output per row of the repository's label file.
Probs(model_name, pix) ==
    IF model_name = VIT
    THEN (IF pix = 1 THEN <<90, 35>> ELSE <<36, 80>>)
    ELSE (IF pix = 1 THEN <<90, 20, 60>> ELSE <<10, 70, 36>>)

\* [t.strip().lower() for t in exclude_tags.split(",") if t.strip()]
ExcludeList(exclude_tags) ==
    LET parts == Split(exclude_tags, ",")
    IN  {Lower(Strip(parts[i])) : i \in {j \in DOMAIN parts : Strip(parts[j]) # <<>>}}

ProcessedTags(tags, replace_underscore) ==
    [i \in DOMAIN tags |->
        IF replace_underscore THEN ReplaceUnderscore(tags[i]) ELSE tags[i]]

\* Faulty variant of the filter: prob >= threshold.
RECURSIVE ResultTagsFromInclusive(_, _, _, _, _)
ResultTagsFromInclusive(processed, probs, threshold, excluded, i) ==
    IF i > Min(Len(processed), Len(probs)) THEN <<>>
    ELSE (IF probs[i] >= threshold /\ Lower(processed[i]) \notin excluded
          THEN <<processed[i]>> ELSE <<>>)
         \o ResultTagsFromInclusive(processed, probs, threshold, excluded, i + 1)

\* for tag, prob in zip(processed_tags, probs): the tags kept, in order.
RECURSIVE ResultTagsFrom(_, _, _, _, _)
ResultTagsFrom(processed, probs, threshold, excluded, i) ==
    IF i > Min(Len(processed), Len(probs)) THEN <<>>
    ELSE (IF probs[i] > threshold /\ Lower(processed[i]) \notin excluded
          THEN <<processed[i]>> ELSE <<>>)
         \o ResultTagsFrom(processed, probs, threshold, excluded, i + 1)

ResultTags(tags, probs, s) ==
    ResultTagsFrom(ProcessedTags(tags, s.replace_underscore), probs, s.threshold,
                   ExcludeList(s.exclude_tags), 1)

\* The output string: the stripped prepend, ", " when both it and the result
\* tags are non-empty, and the result tags joined by ", ".
OutputTags(prepend_tags, result_tags) ==
    LET output_tags == Strip(prepend_tags)
    IN  (IF output_tags # <<>> /\ result_tags # <<>>
         THEN output_tags \o CommaSpace ELSE output_tags)
        \o Join(CommaSpace, result_tags)

\* Path(filename).stem: the name without its last suffix.
RECURSIVE LastDot(_, _)
LastDot(s, i) == IF i = 0 THEN 0 ELSE IF s[i] = "." THEN i ELSE LastDot(s, i - 1)

HasSuffix(name) == LastDot(name, Len(name)) > 1 /\ LastDot(name, Len(name)) < Len(name)

Stem(name) ==
    IF HasSuffix(name) THEN SubSeq(name, 1, LastDot(name, Len(name)) - 1) ELSE name

Suffix(name) ==
    IF HasSuffix(name) THEN SubSeq(name, LastDot(name, Len(name)), Len(name)) ELSE <<>>

\* What writing <stem>.txt can do: write it, fail to open it (nothing
\* changes), or fail after open(..., "w") has truncated it.
WriteOutcomes == {"ok", "open_failed", "write_failed"}

WriteArtifact(out, stem, text, outcome) ==
    CASE outcome = "ok" -> [out EXCEPT ![stem] = Some(text)]
      [] outcome = "write_failed" -> [out EXCEPT ![stem] = Some(<<>>)]
      [] OTHER -> out

\* tag_batch(image, filename, folder_path, model, ..., use_gpu, ...): a is the
\* record of the arguments, s its threshold, replace_underscore, prepend_tags
\* and exclude_tags.  env adds, to the outcomes load_model_once draws, those of
\* sess.run (infer), of the write and of pbar.update (progress; the host's
\* progress hook raises when the run is interrupted).
tag_batch(cache, dir, count, progress, out, a, env) ==
    LET model_name == ExtractModelName(a.model)
        l == load_model_once(cache, dir, count, model_name, a.use_gpu, env)
        base == [result |-> <<>>, outcome |-> "", load |-> l, cache |-> l.cache,
                 dir |-> l.dir, count |-> l.count, progress |-> progress,
                 out |-> out, wrote |-> "none", stem |-> <<>>, composed |-> None,
                 pbar |-> "none", model_name |-> model_name]
        sess == TheValue(l.cache.session)
        tags == TheValue(l.cache.tags)
        input_size == TheValue(l.cache.input_size)
        img == TheValue(a.image)
        new_size == NewSize(img.w, img.h, input_size)
        probs == Probs(sess.model_name, img.pix)
        result_tags == ResultTags(tags, probs, a.settings)
        output_tags == OutputTags(a.settings.prepend_tags, result_tags)
        base_name == Stem(a.filename)
        saves == a.folder_path # ""
        saved == [base EXCEPT !.composed = Some(output_tags),
                              !.stem = IF saves THEN base_name ELSE <<>>,
                              !.wrote = IF saves THEN env.write ELSE "none",
                              !.out = IF saves
                                      THEN WriteArtifact(out, base_name, output_tags,
                                                         env.write)
                                      ELSE out]
        has_bar == progress.pbar # None
    IN  IF ~l.ok THEN [base EXCEPT !.outcome = "load_failed"]
        ELSE IF EmptyImage(a.image) THEN [base EXCEPT !.outcome = "empty_image"]
        ELSE IF InvalidDims(new_size) THEN [base EXCEPT !.outcome = "invalid_dims"]
        ELSE IF ~env.infer THEN [base EXCEPT !.outcome = "inference_failed"]
        ELSE IF has_bar /\ ~env.progress
        THEN [saved EXCEPT !.outcome = "progress_failed", !.pbar = "raised"]
        ELSE [saved EXCEPT !.outcome = "ok", !.result = output_tags,
                           !.pbar = IF has_bar THEN "updated" ELSE "none"]

\* ---------------------------------------------------------------- load_images

JPG == <<".", "j", "p", "g">>
JPEG == <<".", "j", "p", "e", "g">>
PNG == <<".", "p", "n", "g">>
WEBP == <<".", "w", "e", "b", "p">>

supported_extensions == {JPG, JPEG, PNG, WEBP}

\* The files a source folder can hold, in the order sorted() gives them.
FolderFiles ==
    << <<"a">> \o JPG, <<"a">> \o PNG, <<"b", ".", "J", "P", "G">>,
       <<"c", ".", "t", "x", "t">> >>

\* p.suffix.lower() in supported_extensions
Supported(name) == Lower(Suffix(name)) \in supported_extensions

\* sorted([...]) of a set of the folder's files.
RECURSIVE SortedFrom(_, _)
SortedFrom(S, i) ==
    IF i > Len(FolderFiles) THEN <<>>
    ELSE (IF FolderFiles[i] \in S THEN <<FolderFiles[i]>> ELSE <<>>)
         \o SortedFrom(S, i + 1)

\* BatchProgressManager.__init__ and init_progress.  Of the manager's fields
\* only pbar decides anything: current_image, total_images and model_loaded
\* are read by a log message alone and are left out.
NoProgress == [pbar |-> None]

init_progress(total_images) == [pbar |-> Some(total_images)]

\* load_images(folder_path): env tells whether the folder exists, what it
\* lists and which of its files do not decode to a non-empty array.  The
\* result holds the returned filenames and the progress manager afterwards.
load_images(progress, env) ==
    LET image_paths == SortedFrom({f \in env.listing : Supported(f)}, 1)
        kept == SortedFrom({f \in Range(image_paths) : f \notin env.bad}, 1)
    IN  IF ~env.exists THEN [filenames |-> <<>>, progress |-> progress]
        ELSE [filenames |-> kept, progress |-> init_progress(Len(image_paths))]

\* ----------------------------------------------------------------- the inputs

Images ==
    {None, Some([h |-> 0, w |-> 3, pix |-> 1]), Some([h |-> 3, w |-> 4, pix |-> 1]),
     Some([h |-> 1000, w |-> 1, pix |-> 2])}

Filenames == {FolderFiles[i] : i \in {j \in DOMAIN FolderFiles : Supported(FolderFiles[j])}}

Stems == {Stem(f) : f \in Filenames}

\* The model argument: the name, or "name|display name" as the dropdown gives it.
ModelArgs == {<<VIT>>, <<VIT, "|", "WD ViT Tagger v3">>}

\* threshold (percent), replace_underscore, prepend_tags, exclude_tags
Settings ==
    {[threshold |-> 35, replace_underscore |-> TRUE,
      prepend_tags |-> <<" ", "s", " ">>, exclude_tags |-> <<>>],
     [threshold |-> 35, replace_underscore |-> FALSE,
      prepend_tags |-> <<>>, exclude_tags |-> <<" ", "C", "A", "T", ",", " ", ",">>]}

\* The arguments of the calls of tag_batch, for one image file.
TagArgs ==
    [image : Images, filename : {FolderFiles[1]}, folder_path : {"", "out"},
     model : ModelArgs, use_gpu : BOOLEAN, settings : Settings]

\* The outcomes of the collaborators of one call.
LoadEnvs ==
    [fetch_model : FetchOutcomes, fetch_csv : FetchOutcomes,
     sess1 : BOOLEAN, sess2 : BOOLEAN, read_csv : BOOLEAN]

\* The outcomes a call of load_model_once does not consult are immaterial:
\* they are fixed, so that each run of the call is drawn once.
LoadEnvUsed(cache, dir, count, model_name, use_gpu, e) ==
    LET l == load_model_once(cache, dir, count, model_name, use_gpu, e)
        config == MODEL_CONFIGS[model_name]
        tried == l.attempts # <<>> /\ OnnxPath(model_name) \in l.dir
    IN  /\ (model_name \notin DOMAIN MODEL_CONFIGS \/ l.hit) =>
                e = [fetch_model |-> "placed", fetch_csv |-> "placed",
                     sess1 |-> TRUE, sess2 |-> TRUE, read_csv |-> TRUE]
        /\ (model_name \in DOMAIN MODEL_CONFIGS /\ ~l.hit) =>
             /\ config.filename \notin l.fetched => e.fetch_model = "placed"
             /\ config.csv_filename \notin l.fetched => e.fetch_csv = "placed"
             /\ ~tried => e.sess1
             /\ ~(tried /\ ~e.sess1) => e.sess2
             /\ ~l.read_labels => e.read_csv

LoadEnvsFor(cache, dir, count, model_name, use_gpu) ==
    IF model_name \notin DOMAIN MODEL_CONFIGS \/ CacheHit(cache, model_name)
    THEN {[fetch_model |-> "placed", fetch_csv |-> "placed",
           sess1 |-> TRUE, sess2 |-> TRUE, read_csv |-> TRUE]}
    ELSE {e \in [fetch_model : IF OnnxPath(model_name) \in dir
                                THEN {"placed"} ELSE FetchOutcomes,
                  fetch_csv : IF CsvPath(model_name) \in dir
                              THEN {"placed"} ELSE FetchOutcomes,
                  sess1 : BOOLEAN, sess2 : BOOLEAN, read_csv : BOOLEAN] :
            LoadEnvUsed(cache, dir, count, model_name, use_gpu, e)}

\* The outcomes of sess.run, of the write and of pbar.update that a call of
\* tag_batch with arguments a can meet once its load_model_once has returned
\* the cache: none is consulted before the image has passed its checks, the
\* write only with a folder, the progress bar only when there is one.
TagEnvsFor(cache, progress, a) ==
    LET reach == /\ CacheHit(cache, ExtractModelName(a.model))
                 /\ ~EmptyImage(a.image)
                 /\ ~InvalidDims(NewSize(TheValue(a.image).w, TheValue(a.image).h,
                                         TheValue(cache.input_size)))
    IN  {e \in [infer : IF reach THEN BOOLEAN ELSE {TRUE},
                write : IF reach /\ a.folder_path # "" THEN WriteOutcomes ELSE {"ok"},
                progress : IF reach /\ progress.pbar # None THEN BOOLEAN ELSE {TRUE}] :
            ~e.infer => (e.write = "ok" /\ e.progress)}

\* The record of both kinds of outcomes.
EnvOf(le, te) ==
    [fetch_model |-> le.fetch_model, fetch_csv |-> le.fetch_csv,
     sess1 |-> le.sess1, sess2 |-> le.sess2, read_csv |-> le.read_csv,
     infer |-> te.infer, write |-> te.write, progress |-> te.progress]

\* -------------------------------------------------------------------- actions

CanonicalFiles == {OnnxPath(m) : m \in {VIT, SWINV2}} \cup {CsvPath(m) : m \in {VIT, SWINV2}}

\* A fresh process: nothing cached; the models directory holds what earlier
\* runs left in it; the output folder is empty.
Init ==
    /\ model_dir \in SUBSET CanonicalFiles
    /\ model_cache = EmptyCache
    /\ constructed = [m \in {VIT, SWINV2} |-> 0]
    /\ batch_progress = NoProgress
    /\ out_dir = [st \in Stems |-> None]
    /\ tagged = <<>>
    /\ lastCall = NoCall

\* A direct call of ensure_model_available(model_name).
EnsureModelAvailable(model_name, env) ==
    LET r == ensure_model_available(model_dir, model_name, env)
        config == MODEL_CONFIGS[model_name]
    IN  /\ model_name \in DOMAIN MODEL_CONFIGS =>
             /\ config.filename \notin r.fetched => env.fetch_model = "placed"
             /\ config.csv_filename \notin r.fetched => env.fetch_csv = "placed"
        /\ model_name \notin DOMAIN MODEL_CONFIGS =>
             env.fetch_model = "placed" /\ env.fetch_csv = "placed"
        /\ model_dir' = r.dir
        /\ lastCall' = [NoCall EXCEPT !.op = "ensure_model_available",
                                      !.model_name = model_name,
                                      !.ok = r.success, !.fail = r.fail,
                                      !.resolved = TRUE,
                                      !.fetched = r.fetched, !.renamed = r.renamed,
                                      !.model_path = r.model_path,
                                      !.csv_path = r.csv_path]
        /\ UNCHANGED <<model_cache, constructed, batch_progress, out_dir>>

\* A call of load_model_once(model_name, use_gpu).
LoadModelOnce(model_name, use_gpu, env) ==
    \E l \in {load_model_once(model_cache, model_dir, constructed, model_name,
                              use_gpu, env)} :
        /\ l.built = 1 => TotalConstructed(constructed) < MaxSessions
        /\ model_cache' = l.cache
        /\ model_dir' = l.dir
        /\ constructed' = l.count
        /\ lastCall' = [NoCall EXCEPT !.op = "load_model_once",
                                      !.model_name = model_name,
                                      !.use_gpu = use_gpu,
                                      !.ok = l.ok, !.fail = l.fail, !.hit = l.hit,
                                      !.resolved = l.resolved,
                                      !.fetched = l.fetched, !.renamed = l.renamed,
                                      !.attempts = l.attempts, !.built = l.built,
                                      !.read_labels = l.read_labels,
                                      !.sess1 = env.sess1, !.sess2 = env.sess2]
        /\ UNCHANGED <<batch_progress, out_dir>>

\* A call of BSS_LoadImagesFolder.load_images(folder_path).
LoadImages(env) ==
    LET r == load_images(batch_progress, env)
    IN  /\ batch_progress' = r.progress
        /\ lastCall' = [NoCall EXCEPT !.op = "load_images", !.ok = env.exists,
                                      !.filenames = r.filenames]
        /\ UNCHANGED <<model_dir, model_cache, constructed, out_dir>>

\* A call of BSS_WD14BatchTagger.tag_batch.
TagBatch(a, env) ==
    \E t \in {tag_batch(model_cache, model_dir, constructed, batch_progress,
                        out_dir, a, env)} :
        /\ t.load.built = 1 => TotalConstructed(constructed) < MaxSessions
        /\ model_cache' = t.cache
        /\ model_dir' = t.dir
        /\ constructed' = t.count
        /\ batch_progress' = t.progress
        /\ out_dir' = t.out
        /\ lastCall' = [NoCall EXCEPT !.op = "tag_batch",
                                      !.model_name = t.model_name,
                                      !.ok = t.load.ok,
                                      !.filename = a.filename,
                                      !.folder_path = a.folder_path,
                                      !.image = a.image,
                                      !.settings = Some(a.settings),
                                      !.composed = t.composed,
                                      !.result = t.result, !.outcome = t.outcome,
                                      !.wrote = t.wrote, !.stem = t.stem,
                                      !.progress = t.pbar]

FolderEnvs ==
    {e \in [exists : BOOLEAN,
            listing : {Range(FolderFiles)},
            bad : {{}, {FolderFiles[2]}}] :
        ~e.exists => e.bad = {} }

\* The calls the host makes: the two nodes.  use_gpu is read only by a load
\* that misses the cache, so on a hit it is drawn once.
Next ==
    \/ \E env \in FolderEnvs : LoadImages(env) /\ UNCHANGED tagged
    \/ \E a \in {b \in TagArgs :
                    b.use_gpu => ~CacheHit(model_cache, ExtractModelName(b.model))} :
         \E le \in LoadEnvsFor(model_cache, model_dir, constructed,
                               ExtractModelName(a.model), a.use_gpu) :
            \E l \in {load_model_once(model_cache, model_dir, constructed,
                                      ExtractModelName(a.model), a.use_gpu, le)} :
               \E te \in TagEnvsFor(l.cache, batch_progress, a) :
                  TagBatch(a, EnvOf(le, te)) /\ UNCHANGED tagged

\* The host's process: both models were fetched by an earlier run, but for
\* one label file in one of the starts.
InitHost ==
    /\ Init
    /\ model_dir \in {CanonicalFiles, CanonicalFiles \ {CsvPath(VIT)}}

Spec == InitHost /\ [][Next]_vars

\* Direct calls of the two module-level functions.
NextLoad ==
    \/ \E model_name \in ModelNames :
         \E env \in [fetch_model : FetchOutcomes, fetch_csv : FetchOutcomes] :
            EnsureModelAvailable(model_name, env) /\ UNCHANGED tagged
    \/ \E model_name \in ModelNames, use_gpu \in BOOLEAN :
         \E env \in LoadEnvsFor(model_cache, model_dir, constructed, model_name,
                                use_gpu) :
            LoadModelOnce(model_name, use_gpu, env) /\ UNCHANGED tagged

SpecLoad == Init /\ [][NextLoad]_vars

\* The composing step of tag_batch on its own: from the cached labels, the
\* probabilities sess.run returned and the call's settings to output_tags.
ComposeTags(tags, probs, s) ==
    OutputTags(s.prepend_tags, ResultTags(tags, probs, s))

\* Label lists, probabilities around the threshold and settings of the step.
LabelLists ==
    {<< <<"C", "a", "t">>, <<"a", "_", "b">> >>,
     << <<"a", "_", "b">>, <<"C", "a", "t">>, <<"b", "c">>, <<"s", "_", "a">> >>}

ProbValues == {35, 36, 90}

ComposeSettings ==
    [threshold : {35}, replace_underscore : BOOLEAN,
     prepend_tags : {<<>>, <<" ", " ">>, <<" ", "s", " ">>},
     exclude_tags : {<<>>, <<" ", "C", "A", "T", ",", " ", ",">>, <<"a", " ", "b">>}]

\* The step reads nothing but its inputs: a behaviour applies it once.
Compose(tags, probs, s) ==
    /\ lastCall = NoCall
    /\ lastCall' = [NoCall EXCEPT !.op = "compose", !.tags = tags,
                                  !.probs = probs, !.settings = Some(s),
                                  !.composed = Some(ComposeTags(tags, probs, s))]
    /\ UNCHANGED <<model_dir, model_cache, constructed, batch_progress, out_dir,
                   tagged>>

NextCompose ==
    \E tags \in LabelLists :
       \E probs \in [DOMAIN tags -> ProbValues], s \in ComposeSettings :
          Compose(tags, probs, s)

InitCompose ==
    /\ Init
    /\ model_dir = CanonicalFiles

SpecCompose == InitCompose /\ [][NextCompose]_vars

\* One batch of the host: the tagger node is called once per image with the
\* folder the loader returned, every call on a valid image.  tagged observes
\* the calls in order: the filename, what the call returned and how it ended.
BatchArgs ==
    [image : {Some([h |-> 3, w |-> 4, pix |-> 1])}, filename : Filenames,
     folder_path : {"out"}, model : {<<VIT>>}, use_gpu : {FALSE},
     settings : Settings]

Observed(call) ==
    [filename |-> call.filename, result |-> call.result,
     outcome |-> call.outcome, wrote |-> call.wrote]

NextBatch ==
    \/ \E env \in FolderEnvs : LoadImages(env) /\ UNCHANGED tagged
    \/ \E a \in BatchArgs :
         \E le \in LoadEnvsFor(model_cache, model_dir, constructed,
                               ExtractModelName(a.model), a.use_gpu) :
            \E l \in {load_model_once(model_cache, model_dir, constructed,
                                      ExtractModelName(a.model), a.use_gpu, le)} :
               \E te \in TagEnvsFor(l.cache, batch_progress, a) :
                  /\ Len(tagged) < MaxTagged
                  /\ TagBatch(a, EnvOf(le, te))
                  /\ tagged' = Append(tagged, Observed(lastCall'))

SpecBatch == InitHost /\ [][NextBatch]_vars

\* ------------------------------------------------- properties of the loading

\* The cache holds a session that was constructed for model_name.
HoldsSessionFor(cache, model_name) ==
    cache.session # None /\ TheValue(cache.session).model_name = model_name

LoadCall(call) == call.op = "load_model_once"

ResolveCall(call) == call.op = "ensure_model_available"

\* C1 (cache reuse): a call of load_model_once(id, use_gpu) made while the
\* cache holds a session for id, whatever use_gpu is and whatever it was when
\* the session was built, returns success, resolves no file, fetches nothing,
\* constructs no session, does not read the label file and leaves the cache,
\* the models directory and the count of sessions as they were.
CacheReuse ==
    [][(LoadCall(lastCall') /\ HoldsSessionFor(model_cache, lastCall'.model_name))
          => /\ lastCall'.ok
             /\ ~lastCall'.resolved
             /\ lastCall'.fetched = {}
             /\ lastCall'.attempts = <<>> /\ lastCall'.built = 0
             /\ ~lastCall'.read_labels
             /\ model_cache' = model_cache
             /\ model_dir' = model_dir
             /\ constructed' = constructed]_vars

\* A call with use_gpu = TRUE reused a CPU-only session, the only session that
\* was ever constructed for the model.
CacheReuseWitness ==
    /\ LoadCall(lastCall) /\ lastCall.hit /\ lastCall.use_gpu
    /\ HoldsSessionFor(model_cache, lastCall.model_name)
    /\ TheValue(model_cache.session).providers = CpuOnly
    /\ constructed[lastCall.model_name] = 1

\* C2 as the claim states it: over any sequence of calls, the A, B, A one
\* included, at most one session is constructed for each identifier.
LoadedAtMostOncePerId ==
    \A m \in DOMAIN constructed : constructed[m] <= 1

\* C2 (amended): a session is constructed for an identifier only by a call
\* made while the cache does not hold a session for that identifier; the
\* single slot is replaced by a load of another identifier, so A, B, A
\* constructs a session for A twice.
LoadedOnlyWhenNotCached ==
    [][\A m \in DOMAIN constructed :
          constructed'[m] > constructed[m] => ~HoldsSessionFor(model_cache, m)]_vars

\* A, B, A: two sessions were constructed for the model the cache holds, one
\* for the other model in between, and all three loads succeeded.
LoadedTwiceWitness ==
    /\ LoadCall(lastCall) /\ lastCall.ok /\ lastCall.built = 1
    /\ HoldsSessionFor(model_cache, VIT)
    /\ TheValue(model_cache.session).id = 3
    /\ constructed[VIT] = 2 /\ constructed[SWINV2] = 1

\* The first half of C3, which holds: with both files in the models
\* directory the resolution succeeds with the two paths, fetches nothing,
\* renames nothing and leaves the directory as it was.
ResolutionWithoutFetch ==
    [][(ResolveCall(lastCall') /\ lastCall'.model_name \in DOMAIN MODEL_CONFIGS
          /\ BothExist(model_dir, lastCall'.model_name))
          => /\ lastCall'.ok
             /\ lastCall'.model_path = OnnxPath(lastCall'.model_name)
             /\ lastCall'.csv_path = CsvPath(lastCall'.model_name)
             /\ lastCall'.fetched = {} /\ lastCall'.renamed = {}
             /\ model_dir' = model_dir]_vars

\* C3 as the claim states it: a resolution with both files present succeeds
\* without fetch or rename, and a resolution of an identifier that follows a
\* successful resolution of the same identifier performs no fetch.
IdempotentResolution ==
    [][/\ (ResolveCall(lastCall') /\ lastCall'.model_name \in DOMAIN MODEL_CONFIGS
             /\ BothExist(model_dir, lastCall'.model_name))
             => /\ lastCall'.ok
                /\ lastCall'.model_path = OnnxPath(lastCall'.model_name)
                /\ lastCall'.csv_path = CsvPath(lastCall'.model_name)
                /\ lastCall'.fetched = {} /\ lastCall'.renamed = {}
       /\ (ResolveCall(lastCall) /\ lastCall.ok /\ ResolveCall(lastCall')
             /\ lastCall'.model_name = lastCall.model_name)
             => lastCall'.fetched = {}]_vars

\* C4 as the claim states it: ensure_model_available returns success only if
\* both the model file and the label file exist in the models directory when
\* it returns.
SuccessOnlyIfBothExist ==
    (ResolveCall(lastCall) /\ lastCall.ok)
        => BothExist(model_dir, lastCall.model_name)

\* C6 (failed load leaves the cache unchanged): a call of load_model_once that
\* returns failure, for an unknown identifier, a failed fetch, a session that
\* cannot be constructed or a label file that cannot be read, leaves every
\* field of the cache as it was before the call.
FailedLoadKeepsCache ==
    [][(LoadCall(lastCall') /\ ~lastCall'.ok) => model_cache' = model_cache]_vars

\* A load failed on the label file after its session was constructed, while
\* the cache holds the complete model of another identifier.
FailedLoadWitness ==
    /\ LoadCall(lastCall) /\ ~lastCall.ok
    /\ lastCall.fail = "label_read_error" /\ lastCall.built = 1
    /\ model_cache.session # None
    /\ model_cache.model_name # Some(lastCall.model_name)
    /\ model_cache = LoadedCache(TheValue(model_cache.session),
                                 ReadTags(RemoteCsv(TheValue(model_cache.model_name))),
                                 TheValue(model_cache.model_name))

\* C7 (single slot): the cache is empty, or its five fields are the ones that
\* the load which constructed the cached session stored: the session, the
\* labels, the identifier, the input name and the input size of one model;
\* and after a successful load_model_once(id, _) the cached identifier is id.
SingleSlot ==
    /\ \/ model_cache = EmptyCache
       \/ /\ model_cache.session # None
          /\ model_cache =
                LoadedCache(TheValue(model_cache.session),
                            ReadTags(RemoteCsv(TheValue(model_cache.session).model_name)),
                            TheValue(model_cache.session).model_name)
    /\ (LoadCall(lastCall) /\ lastCall.ok)
          => /\ model_cache.model_name = Some(lastCall.model_name)
             /\ HoldsSessionFor(model_cache, lastCall.model_name)

\* A successful load replaced the model of another identifier in the slot.
SingleSlotWitness ==
    /\ LoadCall(lastCall) /\ lastCall.ok /\ ~lastCall.hit
    /\ lastCall.model_name = SWINV2
    /\ model_cache.model_name = Some(SWINV2)
    /\ TheValue(model_cache.session).id >= 2
    /\ constructed[VIT] >= 1

\* A call of load_model_once with use_gpu = TRUE whose files resolved, whose
\* first session construction raised and whose CPU-only construction would
\* succeed.
FallbackCase(call, dir) ==
    /\ LoadCall(call) /\ call.use_gpu /\ ~call.hit
    /\ call.fail \notin {"unknown_model", "download_failed"}
    /\ OnnxPath(call.model_name) \in dir
    /\ ~call.sess1 /\ call.sess2

\* C8 as the claim states it: in the fallback case the call returns success
\* and caches the CPU-only session.
AcceleratorFallback ==
    FallbackCase(lastCall, model_dir)
        => /\ lastCall.ok
           /\ HoldsSessionFor(model_cache, lastCall.model_name)
           /\ TheValue(model_cache.session).providers = CpuOnly

\* C8 (amended): in the fallback case the call returns success and caches
\* the CPU-only session provided the label file is then read; the call fails
\* only for a label file that is missing or cannot be read, never for the
\* failure of the accelerated construction.
AcceleratorFallbackIfLabelsRead ==
    FallbackCase(lastCall, model_dir)
        => /\ lastCall.attempts = <<Providers(TRUE), CpuOnly>>
           /\ lastCall.built = 1
           /\ lastCall.ok \/ lastCall.fail \in {"label_file_missing", "label_read_error"}
           /\ lastCall.ok
                => /\ HoldsSessionFor(model_cache, lastCall.model_name)
                   /\ TheValue(model_cache.session).providers = CpuOnly

\* The accelerated construction failed and the CPU-only session is cached.
AcceleratorFallbackWitness ==
    /\ FallbackCase(lastCall, model_dir)
    /\ lastCall.ok
    /\ TheValue(model_cache.session).providers = CpuOnly

\* ------------------------------------------------- properties of the tagging

TagCall(call) == call.op = "tag_batch"

\* The string a call composes from its arguments with a freshly loaded model:
\* the labels of the model's label file, the network's outputs for the image
\* and the call's settings.
Reference(call) ==
    OutputTags(TheValue(call.settings).prepend_tags,
               ResultTags(ReadTags(RemoteCsv(call.model_name)),
                          Probs(call.model_name, TheValue(call.image).pix),
                          TheValue(call.settings)))

\* A call whose model loaded and which failed for its image: the image is
\* empty or zero-area, its resize dimensions are not positive, or the
\* inference raised.
ImageFailure(call) ==
    /\ TagCall(call) /\ call.ok
    /\ \/ call.image = None
       \/ TheValue(call.image).h = 0 \/ TheValue(call.image).w = 0
       \/ \E d \in {1, 2} :
             NewSize(TheValue(call.image).w, TheValue(call.image).h, InputEdge)[d] <= 0
       \/ call.outcome = "inference_failed"

\* A call whose model loaded, whose image passed and whose progress update
\* did not raise.
CompletedCall(call) ==
    TagCall(call) /\ call.ok /\ ~ImageFailure(call) /\ call.progress # "raised"

\* C5 as the claim states it: a call that fails for its image returns the
\* empty string and leaves the model cache unchanged; every other call
\* returns the string it returns without the failing call; the cache holds
\* the model after every call.
PerImageIsolation ==
    [][/\ ImageFailure(lastCall')
            => lastCall'.result = <<>> /\ model_cache' = model_cache
       /\ CompletedCall(lastCall') => lastCall'.result = Reference(lastCall')
       /\ (TagCall(lastCall') /\ lastCall'.ok)
            => HoldsSessionFor(model_cache', lastCall'.model_name)]_vars

\* C5 (amended): a call that fails for its image returns the empty string and
\* leaves the model cache unchanged when the cache held the model before the
\* call; a failing call made while the cache did not hold the model leaves in
\* it the model the call has just loaded.  Every other call returns the
\* string it returns without the failing call, and the cache holds the model
\* after every call.
PerImageIsolationOnceLoaded ==
    [][/\ ImageFailure(lastCall')
            => /\ lastCall'.result = <<>>
               /\ HoldsSessionFor(model_cache, lastCall'.model_name)
                     => model_cache' = model_cache
               /\ ~HoldsSessionFor(model_cache, lastCall'.model_name)
                     => /\ constructed'[lastCall'.model_name]
                              = constructed[lastCall'.model_name] + 1
                        /\ model_cache' =
                              LoadedCache(TheValue(model_cache'.session),
                                          ReadTags(RemoteCsv(lastCall'.model_name)),
                                          lastCall'.model_name)
       /\ CompletedCall(lastCall') => lastCall'.result = Reference(lastCall')
       /\ (TagCall(lastCall') /\ lastCall'.ok)
            => HoldsSessionFor(model_cache', lastCall'.model_name)]_vars

\* A call failed for the resize dimensions of its image after another call
\* had written its tags; the cache holds the one session ever constructed.
PerImageIsolationWitness ==
    /\ ImageFailure(lastCall) /\ lastCall.outcome = "invalid_dims"
    /\ lastCall.result = <<>>
    /\ \E st \in Stems : out_dir[st] # None /\ out_dir[st] # Some(<<>>)
    /\ HoldsSessionFor(model_cache, lastCall.model_name)
    /\ constructed[lastCall.model_name] = 1

\* C9 as the claim states it: a call with a folder whose load, preprocessing
\* and inference succeeded and whose write failed returns the string it
\* composed, never the empty failure result, and leaves the cached model as
\* it was.
WriteFailureNotFatal ==
    [][(TagCall(lastCall') /\ lastCall'.ok /\ ~ImageFailure(lastCall')
          /\ lastCall'.folder_path # ""
          /\ lastCall'.wrote \in {"open_failed", "write_failed"})
          => /\ lastCall'.result = Reference(lastCall')
             /\ HoldsSessionFor(model_cache, lastCall'.model_name)
                   => model_cache' = model_cache]_vars

\* C10 as the claim states it: after a batch of N images with pairwise
\* distinct filenames, every call of which succeeded and wrote, the folder
\* holds N artifacts, one for each image under the image's base name, each
\* holding the string returned for that image.
OneArtifactPerImage ==
    (/\ \A i \in DOMAIN tagged : tagged[i].outcome = "ok" /\ tagged[i].wrote = "ok"
     /\ \A i, j \in DOMAIN tagged : i # j => tagged[i].filename # tagged[j].filename)
        => /\ Cardinality({st \in Stems : out_dir[st] # None}) = Len(tagged)
           /\ \A i \in DOMAIN tagged :
                 out_dir[Stem(tagged[i].filename)] = Some(tagged[i].result)

\* --------------------------------------------- properties of the composition

\* The labels after the transformation: "_" becomes " " iff replace_underscore.
RefTransformed(tags, s) ==
    [i \in DOMAIN tags |->
        [k \in DOMAIN tags[i] |->
            IF s.replace_underscore /\ tags[i][k] = "_" THEN " " ELSE tags[i][k]]]

\* The trimmed, lowercased, non-empty terms of exclude_tags.
RefTerms(s) ==
    {Lower(Strip(p)) : p \in Range(Split(s.exclude_tags, ","))} \ {<<>>}

\* The positions of the selected labels.
RefSelectedAt(tags, probs, s) ==
    {i \in DOMAIN tags :
        /\ probs[i] > s.threshold
        /\ Lower(RefTransformed(tags, s)[i]) \notin RefTerms(s)}

\* The selected labels in the order of the label file: the k-th of them is
\* the label at the k-th smallest selected position.
RefSelected(tags, probs, s) ==
    LET at == RefSelectedAt(tags, probs, s)
    IN  [k \in 1..Cardinality(at) |->
            RefTransformed(tags, s)[CHOOSE i \in at :
                                       Cardinality({j \in at : j < i}) = k - 1]]

\* The first n of the selected labels with ", " between them.
RECURSIVE RefJoined(_, _)
RefJoined(q, n) ==
    IF n = 0 THEN <<>>
    ELSE IF n = 1 THEN q[1]
    ELSE RefJoined(q, n - 1) \o <<",", " ">> \o q[n]

RefOutput(tags, probs, s) ==
    LET q == RefSelected(tags, probs, s)
        prefix == Strip(s.prepend_tags)
    IN  prefix
        \o (IF prefix # <<>> /\ q # <<>> THEN <<",", " ">> ELSE <<>>)
        \o RefJoined(q, Len(q))

ComposeCall(call) == call.op = "compose"

\* C11 (composition equals the reference): the composed string is the
\* stripped prepend, then ", " only when the stripped prepend is non-empty and
\* a tag is selected, then the selected tags joined by ", "; the selected tags
\* are the transformed labels whose probability is strictly greater than the
\* threshold and whose lowercase form is no term of exclude_tags, in the order
\* of the label file.
CompositionIsReference ==
    ComposeCall(lastCall)
        => TheValue(lastCall.composed)
              = RefOutput(lastCall.tags, lastCall.probs, TheValue(lastCall.settings))

\* A composition with a non-blank prepend in which a label at the threshold
\* and a label named by exclude_tags were left out and two labels were
\* selected, the one of lower probability first.
CompositionWitness ==
    /\ ComposeCall(lastCall)
    /\ LET s == TheValue(lastCall.settings)
           at == RefSelectedAt(lastCall.tags, lastCall.probs, s)
       IN  /\ Strip(s.prepend_tags) # <<>>
           /\ \E i \in DOMAIN lastCall.tags : lastCall.probs[i] = s.threshold
           /\ \E i \in DOMAIN lastCall.tags :
                 /\ lastCall.probs[i] > s.threshold
                 /\ Lower(RefTransformed(lastCall.tags, s)[i]) \in RefTerms(s)
           /\ \E i, j \in at : i < j /\ lastCall.probs[i] < lastCall.probs[j]
           /\ TheValue(lastCall.composed) # <<>>

\* C12 as the claim states it: after a successful load the cached label list
\* has one entry per non-header row of the label file, entry i being the
\* second column of the i-th of these rows, whatever rows the file holds, so
\* that the labels are as many as the network's outputs and label i meets
\* probability i.
LabelAlignment ==
    (LoadCall(lastCall) /\ lastCall.ok)
        => LET rows == Tail(RemoteCsv(lastCall.model_name))
               tags == TheValue(model_cache.tags)
           IN  /\ Len(tags) = Len(rows)
               /\ \A i \in DOMAIN rows : Len(rows[i]) > 1 /\ tags[i] = rows[i][2]
               /\ \A pix \in {1, 2} :
                     Len(tags) = Len(Probs(lastCall.model_name, pix))

\* C13 as the claim states it: a call that returns the empty string for a
\* failure (of the load, of the image or of the inference) leaves the output
\* folder as it was, and a call that wrote <stem>.txt returns exactly the
\* content it wrote, also when the progress update after the write fails.
ArtifactOnlyBySuccess ==
    [][/\ (TagCall(lastCall') /\ (~lastCall'.ok \/ ImageFailure(lastCall')))
            => lastCall'.result = <<>> /\ out_dir' = out_dir
       /\ (TagCall(lastCall') /\ lastCall'.wrote = "ok")
            => out_dir'[lastCall'.stem] = Some(lastCall'.result)]_vars

====
